---- MODULE Spec2Model ----
(***************************************************************************)
(* Model of venv-manager.py: the scan of a directory tree for Python       *)
(* virtual environments (VenvScanner.scan_virtualenvs), the health probe   *)
(* (get_venv_packages), removal (remove_virtualenv), the run               *)
(* (VenvManager.process_virtualenvs) and the pure path formatter           *)
(* (VenvScanner.trim_path).                                                *)
(*                                                                         *)
(* The directory tree is a numbered set of directories, numbered in an     *)
(* order in which root.rglob('*') can yield them (a directory before       *)
(* everything beneath it).  A marker (pyvenv.cfg, bin/python, ...) and the *)
(* interpreter are attributes of a directory; so is the regular file it    *)
(* may hold, which the walk meets as an entry of its own, weighs one size  *)
(* unit and was modified MaxDays days ago.                                 *)
(***************************************************************************)
EXTENDS Integers, Sequences, FiniteSets, TLC

\* ---------------------------------------------------------------- bounds
NumDirs == 2
MaxDays == 1
MaxLen == 8
MaxLimit == 8

Nodes == 1..NumDirs
None == "None"
Root == 0

VARIABLES
  tree,          \* the directory tree under the root: directory -> attributes
  exists,        \* directories currently on disk (with the file they hold)
  older_than,    \* args.older_than: [given, days], given = FALSE for None
  remove,        \* args.remove
  remove_broken, \* args.remove_broken
  pc,            \* "scan" | "process" | "summary" | "done" | "failed"
  i,             \* loop index: into dirs_to_scan while scanning, into venvs after
  venvs,         \* the list of VirtualEnv records built by the scan
  probed,        \* entries get_venv_packages was called on
  spawned,       \* entries whose interpreter was run as a subprocess
  probeFailed,   \* entries whose probe found no interpreter or a failing subprocess
  skipped,       \* entries whose processing raised inside the try block
  removeLog,     \* calls of remove_virtualenv: [path, existed, ok]
  printed,       \* messages printed by process_virtualenvs
  exitStatus,    \* "running", then "success" (0) or "failure" (1)
  path_str,      \* trim_path input
  max_length,    \* trim_path input
  trimmed        \* [done, text]: the result of trim_path once called

vars == <<tree, exists, older_than, remove, remove_broken, pc, i, venvs, probed,
          spawned, probeFailed, skipped, removeLog, printed, exitStatus,
          path_str, max_length, trimmed>>

runVars == <<tree, exists, older_than, remove, remove_broken, pc, i, venvs, probed,
             spawned, probeFailed, skipped, removeLog, printed, exitStatus>>

trimVars == <<path_str, max_length, trimmed>>

\* ------------------------------------------------------------ the tree
\* parent: the directory (or the root) that holds this one; marker: one of
\* the venv_markers exists beneath it; interp: bin/python exists; file: the
\* directory directly holds a regular file.
Directories == [parent : {Root} \cup Nodes, marker : BOOLEAN, interp : BOOLEAN,
                file : BOOLEAN]

\* A directory lies in the root or in a directory listed before it; the
\* interpreter path (bin/python) is itself one of the markers.
WellFormed(t) ==
  \A n \in Nodes :
    /\ t[n].parent < n
    /\ t[n].interp => t[n].marker

Trees == {t \in [Nodes -> Directories] : WellFormed(t)}

RECURSIVE IsBeneath(_, _, _)
\* n lies strictly beneath directory d
IsBeneath(t, n, d) ==
  IF t[n].parent = Root THEN FALSE
  ELSE t[n].parent = d \/ IsBeneath(t, t[n].parent, d)

Beneath(t, d) == {n \in Nodes : IsBeneath(t, n, d)}

Subtree(t, d) == {d} \cup Beneath(t, d)

\* ------------------------------------------------- VenvScanner helpers
\* is_virtualenv: any of the marker paths exists beneath the directory
is_virtualenv(t, n) == t[n].marker

\* One size unit per regular file found by path.rglob('*')
FilesBeneath(t, ex, d) == {n \in Subtree(t, d) \cap ex : t[n].file}

get_dir_size(t, ex, d) == Cardinality(FilesBeneath(t, ex, d))

SetMin(S) == CHOOSE x \in S : \A y \in S : x <= y

\* Age of the most recently modified regular file beneath d; max() of an
\* empty sequence raises ValueError, which is turned into 0.
get_dir_age_days(t, ex, d) ==
  LET ages == {MaxDays : f \in FilesBeneath(t, ex, d)}
  IN IF ages = {} THEN 0 ELSE SetMin(ages)

\* The age test written with >= in place of >
AgeKept_inclusive(age_days, threshold) == ~threshold.given \/ age_days >= threshold.days

\* The age test of the scan loop: older_than is None or age_days > older_than
AgeKept(age_days, threshold) == ~threshold.given \/ age_days > threshold.days

\* What can happen when the probe runs on a directory.
\*   stat_error     python_path.exists() itself raises (outside the inner try)
\*   no_interpreter python_path does not exist
\*   launch_error   subprocess.run raises OSError
\*   nonzero_exit   check=True raises CalledProcessError
\*   bad_json       json.loads raises JSONDecodeError
\*   bad_entry      an element lacks 'name' or 'version' (KeyError, TypeError)
\*   ok             JSON whose elements all carry name and version (an empty
\*                  container included): a list is returned
SubprocessOutcomes == {"launch_error", "nonzero_exit", "bad_json", "bad_entry", "ok"}

\* The outcomes in which the package list could not be retrieved
ProbeFailures == {"no_interpreter", "launch_error", "nonzero_exit", "bad_json", "bad_entry"}

ProbeOutcomes(t, n) ==
  {"stat_error"} \cup (IF t[n].interp THEN SubprocessOutcomes ELSE {"no_interpreter"})

\* get_venv_packages whose except clause misses CalledProcessError
get_venv_packages_uncaught(interp, outcome) ==
  IF outcome = "stat_error" THEN [spawn |-> FALSE, result |-> "raise"]
  ELSE IF ~interp THEN [spawn |-> FALSE, result |-> None]
  ELSE IF outcome = "ok" THEN [spawn |-> TRUE, result |-> "list"]
  ELSE IF outcome = "nonzero_exit" THEN [spawn |-> TRUE, result |-> "raise"]
  ELSE [spawn |-> TRUE, result |-> None]

\* get_venv_packages: spawn tells whether subprocess.run was called, result is
\* None, "list" or "raise" (the exception leaves the function).
get_venv_packages(interp, outcome) ==
  IF outcome = "stat_error" THEN [spawn |-> FALSE, result |-> "raise"]
  ELSE IF ~interp THEN [spawn |-> FALSE, result |-> None]
  ELSE IF outcome = "ok" THEN [spawn |-> TRUE, result |-> "list"]
  ELSE [spawn |-> TRUE, result |-> None]

\* The entries the walk yields for directory n: the directory, then its file
EntriesOf(t, n) ==
  <<[node |-> n, isdir |-> TRUE]>> \o
  (IF t[n].file THEN <<[node |-> n, isdir |-> FALSE]>> ELSE <<>>)

RECURSIVE WalkFrom(_, _)
WalkFrom(t, n) == IF n > NumDirs THEN <<>> ELSE EntriesOf(t, n) \o WalkFrom(t, n + 1)

\* A walk that does not descend into a directory that matched a marker
dirs_to_scan_pruned(t) ==
  LET Kept(e) == \A d \in Nodes : IsBeneath(t, e.node, d) => ~t[d].marker
  IN SelectSeq(WalkFrom(t, 1), Kept)

\* dirs_to_scan: root.rglob('*'), every entry beneath the root, none pruned
dirs_to_scan(t) == WalkFrom(t, 1)

VirtualEnv(path, size_mb, age_days, packages) ==
  [path |-> path, size_mb |-> size_mb, age_days |-> age_days,
   is_broken |-> (packages = None), packages |-> packages]

\* ------------------------------------------------------ scan_virtualenvs
Scanning == pc = "scan" /\ i <= Len(dirs_to_scan(tree))

Entry == dirs_to_scan(tree)[i]

Current == Entry.node

IsCandidate == Entry.isdir /\ is_virtualenv(tree, Current)

\* An exception that leaves scan_virtualenvs is caught by process_virtualenvs,
\* which prints the error and exits with status 1.
Abort ==
  /\ pc' = "failed"
  /\ exitStatus' = "failure"
  /\ venvs' = <<>>
  /\ UNCHANGED trimVars
  /\ UNCHANGED <<tree, exists, older_than, remove, remove_broken, i, probed, spawned,
                 probeFailed, skipped, removeLog, printed>>

\* The entry is not a directory, or no marker is found: nothing is done.
ScanNotCandidate ==
  /\ Scanning
  /\ ~IsCandidate
  /\ i' = i + 1
  /\ UNCHANGED trimVars
  /\ UNCHANGED <<tree, exists, older_than, remove, remove_broken, pc, venvs, probed,
                 spawned, probeFailed, skipped, removeLog, printed, exitStatus>>

\* path.is_dir() raises (e.g. PermissionError): the test is outside the try.
ScanIsDirRaises ==
  /\ Scanning
  /\ Abort

\* is_virtualenv raises on one of the marker paths: also outside the try.
ScanMarkerRaises ==
  /\ Scanning
  /\ Entry.isdir
  /\ Abort

\* get_dir_size or get_dir_age_days raises: caught, the entry is skipped.
ScanSizeAgeRaises ==
  /\ Scanning
  /\ IsCandidate
  /\ skipped' = skipped \cup {Current}
  /\ i' = i + 1
  /\ UNCHANGED trimVars
  /\ UNCHANGED <<tree, exists, older_than, remove, remove_broken, pc, venvs, probed,
                 spawned, probeFailed, removeLog, printed, exitStatus>>

\* The candidate fails the age test: no probe, no record.
ScanFiltered ==
  /\ Scanning
  /\ IsCandidate
  /\ ~AgeKept(get_dir_age_days(tree, exists, Current), older_than)
  /\ i' = i + 1
  /\ UNCHANGED trimVars
  /\ UNCHANGED <<tree, exists, older_than, remove, remove_broken, pc, venvs, probed,
                 spawned, probeFailed, skipped, removeLog, printed, exitStatus>>

\* The candidate passes the age test: it is probed and, unless the probe
\* raises, a record is appended.
ScanProbe ==
  /\ Scanning
  /\ IsCandidate
  /\ AgeKept(get_dir_age_days(tree, exists, Current), older_than)
  /\ \E outcome \in ProbeOutcomes(tree, Current) :
       LET r == get_venv_packages(tree[Current].interp, outcome) IN
         /\ probed' = probed \cup {Current}
         /\ spawned' = IF r.spawn THEN spawned \cup {Current} ELSE spawned
         /\ probeFailed' = IF outcome \in ProbeFailures
                             THEN probeFailed \cup {Current} ELSE probeFailed
         /\ IF r.result = "raise"
              THEN /\ skipped' = skipped \cup {Current}
                   /\ venvs' = venvs
              ELSE /\ skipped' = skipped
                   /\ venvs' = Append(venvs,
                                 VirtualEnv(Current,
                                            get_dir_size(tree, exists, Current),
                                            get_dir_age_days(tree, exists, Current),
                                            r.result))
  /\ i' = i + 1
  /\ UNCHANGED trimVars
  /\ UNCHANGED <<tree, exists, older_than, remove, remove_broken, pc, removeLog,
                 printed, exitStatus>>

\* The walk is exhausted: scan_virtualenvs returns venvs.
ScanReturn ==
  /\ pc = "scan"
  /\ i > Len(dirs_to_scan(tree))
  /\ pc' = "process"
  /\ i' = 1
  /\ UNCHANGED trimVars
  /\ UNCHANGED <<tree, exists, older_than, remove, remove_broken, venvs, probed,
                 spawned, probeFailed, skipped, removeLog, printed, exitStatus>>

\* ------------------------------------------------------ remove_virtualenv
\* What shutil.rmtree may have deleted when it stops: contents go before the
\* directory that holds them.
Deletable(t, ex, path) ==
  {G \in SUBSET (Subtree(t, path) \cap ex) :
     \A n \in G : (Beneath(t, n) \cap ex) \subseteq G}

\* remove_virtualenv that lets the exception of a failed rmtree escape
remove_virtualenv_raising(t, ex, path, gone) ==
  IF path \notin ex
    THEN [ok |-> FALSE, raised |-> TRUE, exists |-> ex]
    ELSE [ok |-> path \in gone, raised |-> path \notin gone, exists |-> ex \ gone]

\* remove_virtualenv(path) where rmtree deleted `gone` before it returned or
\* raised: every exception is caught and turned into False.
remove_virtualenv(t, ex, path, gone) ==
  IF path \notin ex
    THEN [ok |-> FALSE, raised |-> FALSE, exists |-> ex]
    ELSE [ok |-> path \in gone, raised |-> FALSE, exists |-> ex \ gone]

\* --------------------------------------------------- process_virtualenvs
\* Python truth value of args.older_than
Truthy(x) == x.given /\ x.days # 0

\* The removal test that also asks for --remove
ShouldRemove_needs_remove(venv, rm_broken, rm) == venv.is_broken /\ rm_broken /\ rm

\* The removal test of the report loop
ShouldRemove(venv, rm_broken, rm) == venv.is_broken /\ rm_broken

\* The test that guards the dry-run note
DryRunNote(threshold, rm, rm_broken) == Truthy(threshold) /\ ~rm

Processing == pc = "process" /\ venvs # <<>> /\ i <= Len(venvs)

\* "No virtual environments found." and return
ProcessEmpty ==
  /\ pc = "process"
  /\ venvs = <<>>
  /\ printed' = printed \cup {"none_found"}
  /\ pc' = "done"
  /\ exitStatus' = "success"
  /\ UNCHANGED trimVars
  /\ UNCHANGED <<tree, exists, older_than, remove, remove_broken, i, venvs, probed,
                 spawned, probeFailed, skipped, removeLog>>

\* One iteration of the report loop for a record that is only displayed
ProcessDisplay ==
  /\ Processing
  /\ ~ShouldRemove(venvs[i], remove_broken, remove)
  /\ i' = i + 1
  /\ UNCHANGED trimVars
  /\ UNCHANGED <<tree, exists, older_than, remove, remove_broken, pc, venvs, probed,
                 spawned, probeFailed, skipped, removeLog, printed, exitStatus>>

\* One iteration of the report loop for a record that is removed
ProcessRemove ==
  /\ Processing
  /\ ShouldRemove(venvs[i], remove_broken, remove)
  /\ \E gone \in Deletable(tree, exists, venvs[i].path) :
       LET r == remove_virtualenv(tree, exists, venvs[i].path, gone) IN
         /\ removeLog' = Append(removeLog, [path |-> venvs[i].path,
                                            existed |-> venvs[i].path \in exists,
                                            ok |-> r.ok])
         /\ exists' = r.exists
         /\ IF r.raised
              THEN /\ pc' = "failed"
                   /\ exitStatus' = "failure"
                   /\ i' = i
              ELSE /\ pc' = pc
                   /\ exitStatus' = exitStatus
                   /\ i' = i + 1
  /\ UNCHANGED trimVars
  /\ UNCHANGED <<tree, older_than, remove, remove_broken, venvs, probed, spawned,
                 probeFailed, skipped, printed>>

\* The totals, then the dry-run note, then normal return and exit
ProcessSummary ==
  /\ pc = "process"
  /\ venvs # <<>>
  /\ i > Len(venvs)
  /\ printed' = printed \cup {"summary"}
                  \cup (IF DryRunNote(older_than, remove, remove_broken)
                          THEN {"dry_run_note"} ELSE {})
  /\ pc' = "done"
  /\ exitStatus' = "success"
  /\ UNCHANGED trimVars
  /\ UNCHANGED <<tree, exists, older_than, remove, remove_broken, i, venvs, probed,
                 spawned, probeFailed, skipped, removeLog>>

\* ------------------------------------------------------------- the run
\* --older-than: absent (None) or an integer number of days
Thresholds == {[given |-> FALSE, days |-> 0]} \cup [given : {TRUE}, days : 0..MaxDays]

NotTrimmed == [done |-> FALSE, text |-> <<>>]

Init ==
  /\ tree \in Trees
  /\ exists = Nodes
  /\ older_than \in Thresholds
  /\ remove \in BOOLEAN
  /\ remove_broken \in BOOLEAN
  /\ pc = "scan"
  /\ i = 1
  /\ venvs = <<>>
  /\ probed = {}
  /\ spawned = {}
  /\ probeFailed = {}
  /\ skipped = {}
  /\ removeLog = <<>>
  /\ printed = {}
  /\ exitStatus = "running"
  /\ path_str = <<>>
  /\ max_length = 0
  /\ trimmed = NotTrimmed

Next ==
  \/ ScanNotCandidate
  \/ ScanIsDirRaises
  \/ ScanMarkerRaises
  \/ ScanSizeAgeRaises
  \/ ScanFiltered
  \/ ScanProbe
  \/ ScanReturn
  \/ ProcessEmpty
  \/ ProcessDisplay
  \/ ProcessRemove
  \/ ProcessSummary

Spec == Init /\ [][Next]_vars

\* ------------------------------------------------------------ trim_path
\* Path texts are sequences of characters; "/" is os.sep.
Sep == "/"

Chars == {"a", Sep}

Ellipsis == <<".", ".", ".">>

RECURSIVE Strings(_)
\* every text of length n
Strings(n) ==
  IF n = 0 THEN {<<>>}
  ELSE {Append(s, c) : s \in Strings(n - 1), c \in Chars}

PathTexts == UNION {Strings(n) : n \in 0..MaxLen}

RECURSIVE Split(_)
\* str.split(os.sep): the segments between separators, empty ones included
Split(s) ==
  IF \A k \in 1..Len(s) : s[k] # Sep THEN <<s>>
  ELSE LET k == CHOOSE j \in 1..Len(s) : s[j] = Sep /\ \A m \in 1..(j - 1) : s[m] # Sep
       IN <<SubSeq(s, 1, k - 1)>> \o Split(SubSeq(s, k + 1, Len(s)))

RECURSIVE Join(_)
\* os.sep.join(parts)
Join(parts) ==
  IF Len(parts) = 0 THEN <<>>
  ELSE IF Len(parts) = 1 THEN parts[1]
  ELSE parts[1] \o <<Sep>> \o Join(Tail(parts))

\* path_parts[-2:]
EndParts(parts) ==
  IF Len(parts) <= 2 THEN parts ELSE SubSeq(parts, Len(parts) - 1, Len(parts))

\* path_parts[1:-2]
MiddleParts(parts) ==
  IF Len(parts) <= 3 THEN <<>> ELSE SubSeq(parts, 2, Len(parts) - 2)

RECURSIVE Pack(_, _, _)
\* the greedy loop: append leading segments while they fit, stop at the first
\* one that does not
Pack(start, rest, available_start) ==
  IF Len(rest) = 0 THEN start
  ELSE LET next == start \o <<Sep>> \o rest[1]
       IN IF Len(next) <= available_start
            THEN Pack(next, Tail(rest), available_start)
            ELSE start

\* The single-segment fallback applies: nothing is left for the leading part
Fallback(s, limit) ==
  Len(s) > limit /\ limit - Len(Join(EndParts(Split(s)))) - 5 <= 0

trim_path(s, limit) ==
  IF Len(s) <= limit THEN s
  ELSE LET path_parts == Split(s)
           end_parts == EndParts(path_parts)
           end_len == Len(Join(end_parts))
           available_start == limit - end_len - 5
       IN IF available_start <= 0
            THEN Ellipsis \o <<Sep>> \o end_parts[Len(end_parts)]
            ELSE Pack(path_parts[1], MiddleParts(path_parts), available_start)
                   \o <<Sep>> \o Ellipsis \o <<Sep>> \o Join(end_parts)

\* One call of trim_path on the chosen text and limit
TrimPath ==
  /\ ~trimmed.done
  /\ trimmed' = [done |-> TRUE, text |-> trim_path(path_str, max_length)]
  /\ UNCHANGED <<path_str, max_length>>
  /\ UNCHANGED runVars

InitTrim ==
  /\ path_str \in PathTexts
  /\ max_length \in 0..MaxLimit
  /\ trimmed = NotTrimmed
  /\ tree = [n \in Nodes |-> [parent |-> Root, marker |-> FALSE, interp |-> FALSE,
                              file |-> FALSE]]
  /\ exists = Nodes
  /\ older_than = [given |-> FALSE, days |-> 0]
  /\ remove = FALSE
  /\ remove_broken = FALSE
  /\ pc = "idle"
  /\ i = 1
  /\ venvs = <<>>
  /\ probed = {}
  /\ spawned = {}
  /\ probeFailed = {}
  /\ skipped = {}
  /\ removeLog = <<>>
  /\ printed = {}
  /\ exitStatus = "running"

NextTrim == TrimPath

SpecTrim == InitTrim /\ [][NextTrim]_vars

\* --------------------------------------------------------------- claims
\* The scan returned its list to process_virtualenvs
ScanReturned == pc \in {"process", "done"}

\* The directory matches a marker: a candidate of the scan
Detected(n) == tree[n].marker

\* age_days of a directory in the tree as the run found it
AgeOf(n) == IF \E f \in Subtree(tree, n) : tree[f].file THEN MaxDays ELSE 0

InRecords(n) == \E k \in 1..Len(venvs) : venvs[k].path = n

RemovalAttempted(n) == \E j \in 1..Len(removeLog) : removeLog[j].path = n

\* C1: with an age threshold, a detected directory is in the records only if
\* its age_days is strictly greater than the threshold (equal is excluded,
\* greater is included), and an excluded candidate is never probed.
C1_StrictAgeFilter ==
  (older_than.given /\ pc # "failed") =>
    /\ \A k \in 1..Len(venvs) :
         /\ venvs[k].age_days = AgeOf(venvs[k].path)
         /\ venvs[k].age_days > older_than.days
    /\ \A n \in Nodes :
         (Detected(n) /\ AgeOf(n) <= older_than.days) =>
           (n \notin probed /\ ~InRecords(n))
    /\ \A n \in Nodes :
         (ScanReturned /\ Detected(n) /\ n \notin skipped /\ AgeOf(n) > older_than.days)
           => InRecords(n)

\* C1 witness: the scan returned, one candidate aged exactly the threshold was
\* left out and another, older one, is in the records.
C1_Witness ==
  /\ pc = "process"
  /\ older_than.given
  /\ \E n \in Nodes : Detected(n) /\ AgeOf(n) = older_than.days /\ ~InRecords(n)
  /\ \E m \in Nodes : Detected(m) /\ AgeOf(m) > older_than.days /\ InRecords(m)

\* C2: with an age threshold and the remove flag, removal has been attempted
\* on the path of every record of the scan when the run completes.
C2_RemoveFlagRemoves ==
  (pc = "done" /\ older_than.given /\ remove) =>
    \A k \in 1..Len(venvs) : RemovalAttempted(venvs[k].path)

\* C3 as stated: with the remove-broken flag, removal is attempted for every
\* detected environment without a working interpreter, whatever its age and
\* whether or not a threshold is given.
C3_BrokenRemovedWhateverAge ==
  (pc = "done" /\ remove_broken) =>
    \A n \in Nodes :
      (Detected(n) /\ ~tree[n].interp /\ n \notin skipped) => RemovalAttempted(n)

\* C3 amended: with the remove-broken flag, removal is attempted for every
\* record the scan returned with is_broken true, with or without a threshold
\* and with or without the remove flag; removal is never attempted on the
\* path of a detected environment that the age threshold excludes, working
\* interpreter or not; and nothing but the path of a broken record is ever
\* handed to removal.
C3_BrokenRecordsRemoved ==
  /\ (pc = "done" /\ remove_broken) =>
       \A k \in 1..Len(venvs) : venvs[k].is_broken => RemovalAttempted(venvs[k].path)
  /\ \A n \in Nodes :
       (older_than.given /\ Detected(n) /\ AgeOf(n) <= older_than.days)
         => ~RemovalAttempted(n)
  /\ \A j \in 1..Len(removeLog) :
       /\ remove_broken
       /\ \E k \in 1..Len(venvs) :
            venvs[k].path = removeLog[j].path /\ venvs[k].is_broken

\* C3 witness: a run with remove-broken and a threshold, without the remove
\* flag, that attempted removal of a broken record and left alone a detected
\* environment without interpreter that the threshold excluded.
C3_Witness ==
  /\ pc = "done"
  /\ remove_broken /\ ~remove /\ older_than.given
  /\ \E k \in 1..Len(venvs) : venvs[k].is_broken /\ RemovalAttempted(venvs[k].path)
  /\ \E n \in Nodes :
       /\ Detected(n) /\ ~tree[n].interp
       /\ AgeOf(n) <= older_than.days
       /\ ~RemovalAttempted(n)

\* C4: the run prints the dry-run note if and only if an age threshold is set
\* and neither removal flag is given, whatever the scan found; a run that
\* printed the note deleted nothing.
C4_DryRunNoteIffDryRun ==
  pc = "done" =>
    /\ ("dry_run_note" \in printed) <=> (older_than.given /\ ~remove /\ ~remove_broken)
    /\ ("dry_run_note" \in printed) => (removeLog = <<>> /\ exists = Nodes)

\* C5: an exception raised at any step of the processing of one entry of the
\* walk skips that entry only: the scan still returns, with a record for
\* every other candidate that qualifies.
C5_EntryErrorsIsolated ==
  /\ pc # "failed"
  /\ ScanReturned =>
       \A n \in Nodes :
         (Detected(n) /\ n \notin skipped
            /\ (~older_than.given \/ AgeOf(n) > older_than.days)) => InRecords(n)

\* C6: a probe that fails (no interpreter, launch failure, non-zero exit,
\* malformed listing) never drops the candidate nor aborts the scan: its
\* record is in the result with is_broken true and packages absent; without
\* an interpreter path no subprocess is started.
C6_ProbeFailuresReported ==
  /\ [](pc # "failed" =>
          /\ \A n \in probeFailed :
               \E k \in 1..Len(venvs) :
                 /\ venvs[k].path = n
                 /\ venvs[k].is_broken
                 /\ venvs[k].packages = None
          /\ \A n \in probed : ~tree[n].interp => n \notin spawned)
  /\ [][probeFailed' # probeFailed =>
          (pc' = "scan" /\ Len(venvs') = Len(venvs) + 1)]_vars

\* C6 witness: the scan returned with two broken records, one whose
\* interpreter was missing (no subprocess) and one whose subprocess failed.
C6_Witness ==
  /\ pc = "process"
  /\ \E n \in probeFailed : n \in spawned /\ InRecords(n)
  /\ \E m \in probeFailed : m \notin spawned /\ ~tree[m].interp /\ InRecords(m)

\* C7: remove_virtualenv never raises; it returns True only when the tree is
\* gone and False when deletion fails (a path that does not exist included).
\* A failed removal does not stop the run: removal is attempted for every
\* later selected record, the summary is printed and the exit is successful.
C7_RemovalFailureNotFatal ==
  /\ pc = "failed" => removeLog = <<>>
  /\ \A j \in 1..Len(removeLog) :
       /\ removeLog[j].ok =>
            (removeLog[j].existed /\ Subtree(tree, removeLog[j].path) \cap exists = {})
       /\ ~removeLog[j].existed => ~removeLog[j].ok
  /\ (pc = "done" /\ venvs # <<>>) =>
       /\ "summary" \in printed
       /\ exitStatus = "success"
       /\ \A k \in 1..Len(venvs) :
            (venvs[k].is_broken /\ remove_broken) => RemovalAttempted(venvs[k].path)

\* C7 witness: a completed run whose first removal failed and whose second
\* removal was still made.
C7_Witness ==
  /\ pc = "done"
  /\ exitStatus = "success"
  /\ Len(removeLog) >= 2
  /\ ~removeLog[1].ok
  /\ removeLog[2].path # removeLog[1].path

\* C8: detection never prunes the walk: when a directory and a directory
\* beneath it both match a marker, each gets its own record, subject only to
\* the age filter on its own age.
C8_NestedNotPruned ==
  ScanReturned =>
    /\ \A a, b \in Nodes :
         (IsBeneath(tree, b, a) /\ Detected(a) /\ Detected(b)) =>
           \A x \in {a, b} :
             x \notin skipped =>
               (InRecords(x) <=> (~older_than.given \/ AgeOf(x) > older_than.days))
    /\ \A j, k \in 1..Len(venvs) : venvs[j].path = venvs[k].path => j = k

\* C8 witness: the scan returned records for an environment and for one
\* nested in it, under an age threshold.
C8_Witness ==
  /\ pc = "process"
  /\ older_than.given
  /\ \E a, b \in Nodes :
       IsBeneath(tree, b, a) /\ Detected(a) /\ Detected(b) /\ InRecords(a) /\ InRecords(b)

\* C10: the run deletes nothing that belongs to an environment reported as
\* healthy: after the run the directory of every record with is_broken false
\* still exists with everything beneath it.
C10_HealthyUntouched ==
  pc = "done" =>
    \A k \in 1..Len(venvs) :
      ~venvs[k].is_broken => Subtree(tree, venvs[k].path) \subseteq exists

\* t occurs in s as a contiguous run of characters
Contains(s, t) ==
  \E k \in 0..(Len(s) - Len(t)) : SubSeq(s, k + 1, k + Len(t)) = t

\* C9: for every path text and every max_length, trim_path returns the text
\* unchanged when it fits; otherwise, unless the single-segment fallback
\* applies, the result contains the final two segments verbatim and is no
\* longer than max_length.
C9_TrimWithinLimit ==
  trimmed.done =>
    /\ Len(path_str) <= max_length => trimmed.text = path_str
    /\ (Len(path_str) > max_length /\ ~Fallback(path_str, max_length)) =>
         /\ Contains(trimmed.text, Join(EndParts(Split(path_str))))
         /\ Len(trimmed.text) <= max_length

====
